---- MODULE Spec2Model ----
(***************************************************************************)
(* Readwise Audio worker: the feed-assembly and marker-reconciliation      *)
(* pipeline of the Cloudflare worker (v3 worker, src/unnamed/part_000, and *)
(* the first worker, src/worker.js).                                       *)
(*                                                                         *)
(* Every request is an async handler: it runs atomically between two       *)
(* awaits, so each action below is the code between two awaits of one      *)
(* request, and requests of different clients interleave at the awaits.    *)
(* The KV namespace is modelled as its three key families: heard:<id> and  *)
(* later:<id> (presence only) and summary:<id> (a text).  Every behaviour  *)
(* stays inside the TTL windows of the keys: no key expires.               *)
(***************************************************************************)
EXTENDS Integers, Sequences, FiniteSets, TLC

\* ---- bounds of the model
NumIds == 2          \* articles of the upstream store, one client (SpecFeed, SpecV1)
RaceIds == 1         \* articles of the upstream store, two clients (Spec)
\* MAX_ARTICLES is 50 in the source (part_000:17); the model scales it to the
\* number of articles it handles.
MAX_ARTICLES == 2
\* the first worker summarizes newArticles.slice(0, 30) (worker.js:94), scaled
\* likewise
SliceLimit == 2
\* the longest host name tried, in characters
MaxHost == 6
MaxPending == 2
MaxTimers == 1
QueueLen == 3

\* ---- program constants
maxPages == 10       \* part_000:210
RETRIES == 3         \* part_000:224  let retries = 3

Clients == {"c1", "c2"}
Null == "null"
\* the locations and categories of the documents of the upstream store
Locations == {"new", "feed", "later", "shortlist", "archive"}
Categories == {"article", "email"}

VARIABLES
  docs,      \* upstream store: id -> [exists, location, category, saved_at]
  pageSize,  \* upstream store: documents per list page
  heard,     \* KV: ids with a heard:<id> key
  later,     \* KV: ids with a later:<id> key
  summary,   \* KV: id -> text of summary:<id>, Null when absent
  req,       \* client -> the request in flight
  resp,      \* the response the last step returned to its client, if it did
  handled,   \* history: ids whose heard marker an archive or delete wrote,
             \* with no later request for the id received since
  page,      \* the front end: the script state of the served page
  call       \* a call of a helper function: its argument and what it returned

vars == <<docs, pageSize, heard, later, summary, req, resp, handled, page, call>>

Ids == DOMAIN docs

\* ---- values

\* if (cached), if (nextCursor): JavaScript truthiness of a string or null
Truthy(v) == v # Null /\ v # ""

Article(i) == [id |-> i, location |-> docs[i].location, saved_at |-> docs[i].saved_at]

\* ---- the upstream list endpoint (the collaborator contract of spec.md 6:
\* cursor pagination over the stored documents, in the store's own order)

\* documents of page p, as the list call returns them
PageIds(p) == {i \in Ids : docs[i].exists /\ (p - 1) * pageSize < i /\ i <= p * pageSize}

RECURSIVE SeqOfIds(_)
SeqOfIds(S) ==
  IF S = {} THEN <<>>
  ELSE LET m == CHOOSE x \in S : \A y \in S : x <= y
       IN <<m>> \o SeqOfIds(S \ {m})

\* nextPageCursor of page p: 0 stands for null
NextPageCursor(p) == IF \E i \in Ids : i > p * pageSize THEN p + 1 ELSE 0

\* ---- fetchAllReadwiseArticles

\* a variant without the category check
KeepDoc_AnyCategory(i, locationFilter) ==
  /\ docs[i].location # "archive"
  /\ IF locationFilter = "feed" THEN docs[i].location \in {"new", "feed"}
     ELSE IF locationFilter = "library" THEN docs[i].location \in {"later", "shortlist"}
     ELSE TRUE

\* a variant without the archive check
KeepDoc_NoArchive(i, locationFilter) ==
  /\ docs[i].category = "article"
  /\ IF locationFilter = "feed" THEN docs[i].location \in {"new", "feed"}
     ELSE IF locationFilter = "library" THEN docs[i].location \in {"later", "shortlist"}
     ELSE TRUE

\* the client-side filter of one page
KeepDoc(i, locationFilter) ==
  /\ docs[i].category = "article"
  /\ docs[i].location # "archive"
  /\ IF locationFilter = "feed" THEN docs[i].location \in {"new", "feed"}
     ELSE IF locationFilter = "library" THEN docs[i].location \in {"later", "shortlist"}
     ELSE TRUE

PageArticles(p, locationFilter) ==
  LET kept == SeqOfIds({i \in PageIds(p) : KeepDoc(i, locationFilter)})
  IN [k \in 1..Len(kept) |-> Article(kept[k])]

\* Array.prototype.sort with (a, b) => b.saved_at - a.saved_at: a stable sort,
\* most recent first
RECURSIVE InsertDesc(_, _)
InsertDesc(a, s) ==
  IF s = <<>> THEN <<a>>
  ELSE IF Head(s).saved_at < a.saved_at THEN <<a>> \o s
  ELSE <<Head(s)>> \o InsertDesc(a, Tail(s))

\* a variant that leaves the articles in the order of their arrival
SortRecentFirst_Arrival(s) == s

RECURSIVE SortRecentFirst(_)
SortRecentFirst(s) ==
  IF s = <<>> THEN <<>>
  ELSE InsertDesc(s[Len(s)], SortRecentFirst(SubSeq(s, 1, Len(s) - 1)))

\* ---- handleFeed, steps 3 and 4

\* a variant that forgets the later list
MarkerKeep_HeardOnly(i, heardIds, laterIds) == i \notin heardIds

\* article => !isHeard || isLater
MarkerKeep(i, heardIds, laterIds) == i \notin heardIds \/ i \in laterIds

FilterByMarkers(articles, heardIds, laterIds) ==
  SelectSeq(articles, LAMBDA a : MarkerKeep(a.id, heardIds, laterIds))

\* a variant that serves every kept article
Capped_All(s) == s

\* newArticles.slice(0, MAX_ARTICLES)
Capped(s) == SubSeq(s, 1, IF Len(s) < MAX_ARTICLES THEN Len(s) ELSE MAX_ARTICLES)

FeedItem(a, text) == [id |-> a.id, location |-> a.location, summary |-> text]

\* ---- requests

\* A path is its sequence of segments: <<>> is "/", <<"api", "feed">> is
\* "/api/feed".  path.includes('/api/x') holds when the segments "api", "x"
\* occur next to each other.
PathIncludes(path, a, b) ==
  \E k \in 1..(Len(path) - 1) : path[k] = a /\ path[k + 1] = b

\* a variant whose action routes take every method
Route_AnyMethod(method, path) ==
  IF method = "OPTIONS" THEN "options"
  ELSE IF path = <<>> \/ (Len(path) > 0 /\ path[Len(path)] = "index.html") THEN "html"
  ELSE IF PathIncludes(path, "api", "feed") THEN "feed"
  ELSE IF PathIncludes(path, "api", "tts") /\ method = "POST" THEN "tts"
  ELSE IF PathIncludes(path, "api", "archive") THEN "archive"
  ELSE IF PathIncludes(path, "api", "delete") THEN "delete"
  ELSE IF PathIncludes(path, "api", "later") THEN "later"
  ELSE IF path = <<"manifest.json">> THEN "manifest"
  ELSE "notfound"

\* export default { fetch }: the routing table of the v3 worker
Route(method, path) ==
  IF method = "OPTIONS" THEN "options"
  ELSE IF path = <<>> \/ (Len(path) > 0 /\ path[Len(path)] = "index.html") THEN "html"
  ELSE IF PathIncludes(path, "api", "feed") THEN "feed"
  ELSE IF PathIncludes(path, "api", "tts") /\ method = "POST" THEN "tts"
  ELSE IF PathIncludes(path, "api", "archive") /\ method = "POST" THEN "archive"
  ELSE IF PathIncludes(path, "api", "delete") /\ method = "POST" THEN "delete"
  ELSE IF PathIncludes(path, "api", "later") /\ method = "POST" THEN "later"
  ELSE IF path = <<"manifest.json">> THEN "manifest"
  ELSE "notfound"

IdleReq ==
  [kind |-> "idle", pc |-> "idle", id |-> 0, location |-> Null,
   all |-> <<>>, cursor |-> 0, pageCount |-> 0, retries |-> 0,
   heardIds |-> {}, laterIds |-> {}, newArticles |-> <<>>, idx |-> 0,
   text |-> Null, summaries |-> <<>>, step |-> 0,
   status |-> 0, articles |-> <<>>, total |-> 0, success |-> FALSE,
   error |-> Null, upstream |-> 0, body |-> "json",
   after |-> {}, raced |-> FALSE, marked |-> FALSE, failed |-> {}, cand |-> <<>>]

\* Fields of a request: kind, pc (the await it stands at), the request's input
\* (id, location), the locals of fetchAllReadwiseArticles (all, cursor,
\* pageCount, retries), of handleFeed (heardIds, laterIds, newArticles, idx,
\* text, summaries), of an action handler (step), and the response (status,
\* articles, total, success, error, and body: "json", "audio" for the
\* streamed speech, "fallback" for {use_browser_tts: true, text}).  History only: upstream, the status of the
\* last answer of the upstream store to this request; after, for a feed request,
\* the handled ids when it was received (less those deferred since); raced, for
\* a later request, that a feed request deleted later:<id> after its put;
\* marked, that the handler's KV put has completed; failed, the ids whose
\* summarization threw; cand, in a feed response, the capped candidates.

\* a finished request: only the response is left
Response(kind, status) == [IdleReq EXCEPT !.kind = kind, !.pc = "done", !.status = status]

\* the catch of fetch: new Response({error: error.message}, {status: 500})
\* (the message of every error thrown here ends with the upstream status)
ErrorResponse(kind, msg, upstreamStatus) ==
  [Response(kind, 500) EXCEPT !.error = msg, !.upstream = upstreamStatus]

\* a variant of put that removes a key already there
KVPut_Toggle(keys, id) == IF id \in keys THEN keys \ {id} ELSE keys \cup {id}

\* env.KV.put(`heard:${id}`, ...), env.KV.put(`later:${id}`, ...) on the ids
\* that have the key
KVPut(keys, id) == keys \cup {id}

\* a variant of delete that leaves the key
KVDelete_Noop(keys, id) == keys

\* env.KV.delete(`heard:${id}`), env.KV.delete(`later:${id}`)
KVDelete(keys, id) == keys \ {id}

\* a variant whose later handler moves the document upstream after its markers
HandlerSteps_LaterUpstream(kind) ==
  IF kind = "later" THEN <<"put", "del", "upstream">> ELSE <<"put", "upstream">>

\* a variant that asks the upstream store first and marks afterwards
HandlerSteps_UpstreamFirst(kind) ==
  IF kind = "later" THEN <<"put", "del">> ELSE <<"upstream", "put">>

\* a variant whose later handler leaves the heard marker in place
HandlerSteps_NoHeardDelete(kind) ==
  IF kind = "later" THEN <<"put">> ELSE <<"put", "upstream">>

\* handleArchive, handleDelete, handleLater: the awaited calls, in order
HandlerSteps(kind) ==
  IF kind = "later" THEN <<"put", "del">> ELSE <<"put", "upstream">>

NoResponse == [client |-> "none", r |-> IdleReq]

\* the step of client c leaves the requests as f: a request that has returned
\* hands its response to the client and frees the client
Deliver(f, c) ==
  /\ req' = [f EXCEPT ![c] = IF f[c].pc = "done" THEN IdleReq ELSE f[c]]
  /\ resp' = IF f[c].pc = "done" THEN [client |-> c, r |-> f[c]] ELSE NoResponse

\* url.searchParams.get('location') || 'all'
LocationParam(q) == IF Truthy(q) THEN q ELSE "all"

StartRequest(c, method, path, q, id) ==
  /\ req[c].pc = "idle"
  /\ LET h == Route(method, path)
         started ==
           IF h = "feed"
             THEN [IdleReq EXCEPT !.kind = "feed", !.pc = "list",
                                  !.location = LocationParam(q), !.retries = RETRIES,
                                  !.after = handled]
           ELSE IF h \in {"archive", "delete", "later"}
             THEN [IdleReq EXCEPT !.kind = h, !.pc = HandlerSteps(h)[1], !.id = id, !.step = 1]
           ELSE IF h = "tts" THEN [IdleReq EXCEPT !.kind = "tts", !.pc = "ttsbody"]
           ELSE IF h = "notfound" THEN Response(h, 404)
           ELSE Response(h, 200)
     IN IF h = "later"
          THEN /\ handled' = handled \ {id}
               /\ Deliver([d \in Clients |->
                     IF d = c THEN started
                     ELSE IF req[d].kind = "feed"
                       THEN [req[d] EXCEPT !.after = @ \ {id}]
                     ELSE req[d]], c)
          ELSE /\ handled' = handled
               /\ Deliver([req EXCEPT ![c] = started], c)
  /\ UNCHANGED <<docs, pageSize, call, page, heard, later, summary>>

\* ---- fetchAllReadwiseArticles: one list call and what follows it up to the
\* next await

\* a variant without the page cap
AfterPage_NoPageCap(r) ==
  LET p == IF r.cursor = 0 THEN 1 ELSE r.cursor
      allArticles == r.all \o PageArticles(p, r.location)
      nextCursor == NextPageCursor(p)
      pageCount == r.pageCount + 1
  IN IF Len(allArticles) >= MAX_ARTICLES \/ nextCursor = 0
       THEN [r EXCEPT !.pc = "heard", !.all = SortRecentFirst(allArticles),
                      !.cursor = 0, !.pageCount = 0, !.retries = 0]
       ELSE [r EXCEPT !.all = allArticles, !.cursor = nextCursor,
                      !.pageCount = pageCount, !.retries = RETRIES]

\* the page was read: filter, push, advance the cursor, stop or go on
AfterPage(r) ==
  LET p == IF r.cursor = 0 THEN 1 ELSE r.cursor
      allArticles == r.all \o PageArticles(p, r.location)
      nextCursor == NextPageCursor(p)
      pageCount == r.pageCount + 1
  IN IF Len(allArticles) >= MAX_ARTICLES \/ pageCount >= maxPages \/ nextCursor = 0
       THEN [r EXCEPT !.pc = "heard", !.all = SortRecentFirst(allArticles),
                      !.cursor = 0, !.pageCount = 0, !.retries = 0]
       ELSE [r EXCEPT !.all = allArticles, !.cursor = nextCursor,
                      !.pageCount = pageCount, !.retries = RETRIES]

\* a variant that gives up on the first 429
ListOutcome_NoRetry(r, status) ==
  IF status # 200
    THEN [ErrorResponse("feed", "Readwise API error", status) EXCEPT !.pageCount = r.pageCount]
  ELSE AfterPage(r)

\* a variant that stops paginating on a failed call and keeps what it has
ListOutcome_Partial(r, status) ==
  IF status = 429 /\ r.retries - 1 > 0 THEN [r EXCEPT !.retries = r.retries - 1]
  ELSE IF status # 200
    THEN [r EXCEPT !.pc = "heard", !.all = SortRecentFirst(r.all),
                   !.cursor = 0, !.pageCount = 0, !.retries = 0]
  ELSE AfterPage(r)

\* while (retries > 0) { ... 429: retries--; continue } break; then
\* if (!response.ok) throw new Error(`Readwise API error: ${response.status}`)
ListOutcome(r, status) ==
  IF status = 429 /\ r.retries - 1 > 0 THEN [r EXCEPT !.retries = r.retries - 1]
  ELSE IF status # 200
    THEN [ErrorResponse("feed", "Readwise API error", status) EXCEPT !.pageCount = r.pageCount]
  ELSE AfterPage(r)

\* the upstream store answers the list call
ListResponse(c, status) ==
  /\ req[c].pc = "list"
  /\ Deliver([req EXCEPT ![c] = [ListOutcome(req[c], status) EXCEPT !.upstream = status]], c)
  /\ UNCHANGED <<docs, pageSize, call, page, heard, later, summary, handled>>

\* ---- handleFeed

\* const heardIds = await getHeardIds(env)
ScanHeard(c) ==
  /\ req[c].pc = "heard"
  /\ Deliver([req EXCEPT ![c] = [@ EXCEPT !.pc = "later", !.heardIds = heard]], c)
  /\ UNCHANGED <<docs, pageSize, call, page, heard, later, summary, handled>>

\* a variant that counts the served articles as available
FeedResponse_TotalServed(r) ==
  [Response("feed", 200) EXCEPT !.articles = r.summaries,
                                !.total = Len(r.summaries),
                                !.location = r.location,
                                !.after = r.after, !.failed = r.failed,
                                !.cand = Capped(r.newArticles), !.upstream = r.upstream]

\* the response of handleFeed
FeedResponse(r) ==
  [Response("feed", 200) EXCEPT !.articles = r.summaries,
                                !.total = Len(r.newArticles),
                                !.location = r.location,
                                !.after = r.after, !.failed = r.failed,
                                !.cand = Capped(r.newArticles), !.upstream = r.upstream]

\* the head of the for loop: the next article of the capped list, or the end
LoopHead(r) ==
  IF r.idx <= Len(Capped(r.newArticles))
    THEN [r EXCEPT !.pc = "cacheget", !.text = Null]
    ELSE FeedResponse(r)

NextArticle(r) == LoopHead([r EXCEPT !.idx = r.idx + 1])

\* const laterIds = await getLaterIds(env); the filter; the loop is entered
ScanLater(c) ==
  /\ req[c].pc = "later"
  /\ LET r == req[c] IN
     Deliver([req EXCEPT ![c] =
       LoopHead([r EXCEPT !.laterIds = later,
                          !.newArticles = FilterByMarkers(r.all, r.heardIds, later),
                          !.all = <<>>, !.heardIds = {}, !.idx = 1])], c)
  /\ UNCHANGED <<docs, pageSize, call, page, heard, later, summary, handled>>

CurrentArticle(r) == Capped(r.newArticles)[r.idx]

\* a variant that leaves the later marker of a served article in place
Pushed_NoLaterDelete(r, text) ==
  NextArticle([r EXCEPT !.summaries = Append(r.summaries, FeedItem(CurrentArticle(r), text)),
                        !.text = Null])

\* summaries.push(...), then if (laterIds.has(article.id)) await KV.delete
Pushed(r, text) ==
  LET r2 == [r EXCEPT !.summaries = Append(r.summaries, FeedItem(CurrentArticle(r), text)),
                      !.text = Null]
  IN IF CurrentArticle(r).id \in r.laterIds
       THEN [r2 EXCEPT !.pc = "laterdel"]
       ELSE NextArticle(r2)

\* getCachedOrSummarize
\* const cached = await env.KV.get(cacheKey); if (cached) return cached;
CacheHit(cached) == Truthy(cached)

CacheGet(c) ==
  /\ req[c].pc = "cacheget"
  /\ LET r == req[c]
         cached == summary[CurrentArticle(r).id]
     IN Deliver([req EXCEPT ![c] =
          IF CacheHit(cached) THEN Pushed(r, cached)
          ELSE [r EXCEPT !.pc = "summarize"]], c)
  /\ UNCHANGED <<docs, pageSize, call, page, heard, later, summary, handled>>

\* summarizeArticle: the summarizer answered with a text
SummarizerOk(c, text) ==
  /\ req[c].pc = "summarize"
  /\ Deliver([req EXCEPT ![c] = [@ EXCEPT !.pc = "cacheput", !.text = text]], c)
  /\ UNCHANGED <<docs, pageSize, call, page, heard, later, summary, handled>>

\* a variant without the try/catch of the loop: the error reaches fetch
Caught_Rethrown(r) == ErrorResponse("feed", "Claude API error", r.upstream)

\* a variant that tries the same article again after a failure
Caught_Retry(r) == [r EXCEPT !.pc = "cacheget", !.failed = {}]

\* summarizeArticle throws (a non-2xx answer); the catch of the loop logs it
\* and the loop goes on
Caught(r) == NextArticle(r)

SummarizerFail(c) ==
  /\ req[c].pc = "summarize"
  /\ Deliver([req EXCEPT ![c] =
       Caught([req[c] EXCEPT !.failed = @ \cup {CurrentArticle(req[c]).id}])], c)
  /\ UNCHANGED <<docs, pageSize, call, page, heard, later, summary, handled>>

\* a variant that marks the summarized article heard
CachePut_MarkHeard(c) ==
  /\ req[c].pc = "cacheput"
  /\ summary' = [summary EXCEPT ![CurrentArticle(req[c]).id] = req[c].text]
  /\ heard' = KVPut(heard, CurrentArticle(req[c]).id)
  /\ Deliver([req EXCEPT ![c] = Pushed(req[c], req[c].text)], c)
  /\ UNCHANGED <<docs, pageSize, call, page, later, handled>>

\* a variant whose put leaves a summary that is already there
CachePut_IfAbsent(c) ==
  /\ req[c].pc = "cacheput"
  /\ summary' = IF summary[CurrentArticle(req[c]).id] # Null THEN summary
                ELSE [summary EXCEPT ![CurrentArticle(req[c]).id] = req[c].text]
  /\ Deliver([req EXCEPT ![c] = Pushed(req[c], req[c].text)], c)
  /\ UNCHANGED <<docs, pageSize, call, page, heard, later, handled>>

\* await env.KV.put(cacheKey, summary, ...); return summary
CachePut(c) ==
  /\ req[c].pc = "cacheput"
  /\ summary' = [summary EXCEPT ![CurrentArticle(req[c]).id] = req[c].text]
  /\ Deliver([req EXCEPT ![c] = Pushed(req[c], req[c].text)], c)
  /\ UNCHANGED <<docs, pageSize, call, page, heard, later, handled>>

\* a variant whose delete of the later marker marks the served article heard
LaterDelete_MarkHeard(c) ==
  /\ req[c].pc = "laterdel"
  /\ later' = KVDelete(later, CurrentArticle(req[c]).id)
  /\ heard' = KVPut(heard, CurrentArticle(req[c]).id)
  /\ Deliver([req EXCEPT ![c] = NextArticle(req[c])], c)
  /\ UNCHANGED <<docs, pageSize, call, page, summary, handled>>

\* a variant that clears every later marker the scan found
LaterDelete_AllScanned(c) ==
  /\ req[c].pc = "laterdel"
  /\ later' = later \ req[c].laterIds
  /\ Deliver([req EXCEPT ![c] = NextArticle(req[c])], c)
  /\ UNCHANGED <<docs, pageSize, call, page, heard, summary, handled>>

\* await env.KV.delete(`later:${article.id}`)
LaterDelete(c) ==
  /\ req[c].pc = "laterdel"
  /\ later' = KVDelete(later, CurrentArticle(req[c]).id)
  /\ Deliver([d \in Clients |->
       IF d = c THEN NextArticle(req[c])
       ELSE IF req[d].kind = "later" /\ req[d].pc = "del"
               /\ req[d].id = CurrentArticle(req[c]).id
         THEN [req[d] EXCEPT !.raced = TRUE]
       ELSE req[d]], c)
  /\ UNCHANGED <<docs, pageSize, call, page, heard, summary, handled>>

\* ---- handleArchive, handleDelete, handleLater

CurStep(r) == IF r.step = 0 THEN "none" ELSE HandlerSteps(r.kind)[r.step]

\* the awaited call returned: the next call, or return {success: true}
StepDone(r) ==
  IF r.step < Len(HandlerSteps(r.kind))
    THEN [r EXCEPT !.step = r.step + 1, !.pc = HandlerSteps(r.kind)[r.step + 1]]
    ELSE [Response(r.kind, 200) EXCEPT !.success = TRUE, !.id = r.id, !.raced = r.raced,
                                      !.marked = r.marked, !.upstream = r.upstream]

\* a variant whose put of a marker drops the cached summary of the id
MarkerPut_Invalidate(c) ==
  /\ req[c].kind \in {"archive", "delete", "later"}
  /\ req[c].pc = "put"
  /\ IF req[c].kind = "later"
       THEN later' = KVPut(later, req[c].id) /\ UNCHANGED <<heard, handled>>
       ELSE /\ heard' = KVPut(heard, req[c].id)
            /\ handled' = handled \cup {req[c].id}
            /\ later' = later
  /\ summary' = [summary EXCEPT ![req[c].id] = Null]
  /\ Deliver([req EXCEPT ![c] = StepDone([req[c] EXCEPT !.marked = TRUE])], c)
  /\ UNCHANGED <<docs, pageSize, call, page>>

\* await env.KV.put(`heard:${id}`, ...) in archive and delete,
\* await env.KV.put(`later:${id}`, ...) in later
MarkerPut(c) ==
  /\ req[c].kind \in {"archive", "delete", "later"}
  /\ req[c].pc = "put"
  /\ IF req[c].kind = "later"
       THEN later' = KVPut(later, req[c].id) /\ UNCHANGED <<heard, handled>>
       ELSE /\ heard' = KVPut(heard, req[c].id)
            /\ handled' = handled \cup {req[c].id}
            /\ later' = later
  /\ Deliver([req EXCEPT ![c] = StepDone([req[c] EXCEPT !.marked = TRUE])], c)
  /\ UNCHANGED <<docs, pageSize, call, page, summary>>

\* a variant that clears the heard marker only while the later marker is there
HeardDelete_IfLater(c) ==
  /\ req[c].pc = "del"
  /\ heard' = IF req[c].id \in later THEN KVDelete(heard, req[c].id) ELSE heard
  /\ Deliver([req EXCEPT ![c] = StepDone(req[c])], c)
  /\ UNCHANGED <<docs, pageSize, call, page, later, summary, handled>>

\* await env.KV.delete(`heard:${id}`) in later
HeardDelete(c) ==
  /\ req[c].pc = "del"
  /\ heard' = KVDelete(heard, req[c].id)
  /\ Deliver([req EXCEPT ![c] = StepDone(req[c])], c)
  /\ UNCHANGED <<docs, pageSize, call, page, later, summary, handled>>

\* a variant that takes not-found for a failure of the delete as well
MutationOk_OkOnly(kind, status) == status \in {200, 204}

\* a variant that lets 404 pass for the update as well
MutationOk_NotFoundOk(kind, status) == status \in {200, 204} \/ status = 404

\* updateReadwiseDocument: if (!response.ok) throw
\* deleteReadwiseDocument: if (!response.ok && response.status !== 404) throw
MutationOk(kind, status) ==
  IF kind = "delete" THEN status \in {200, 204} \/ status = 404
  ELSE status \in {200, 204}

\* the upstream store answers the PATCH or the DELETE: with 200 it has applied it,
\* with 404 the document does not exist, with anything else nothing was done
UpstreamResponse(c, status) ==
  /\ req[c].pc = "upstream"
  /\ LET r == req[c] IN
     /\ status = 200 => docs[r.id].exists
     /\ status = 404 => ~docs[r.id].exists
     /\ docs' = IF status # 200 THEN docs
                ELSE IF r.kind = "delete" THEN [docs EXCEPT ![r.id].exists = FALSE]
                ELSE [docs EXCEPT ![r.id].location = "archive"]
     /\ Deliver([req EXCEPT ![c] =
          IF MutationOk(r.kind, status) THEN StepDone([r EXCEPT !.upstream = status])
          ELSE [ErrorResponse(r.kind,
                  IF r.kind = "delete" THEN "Readwise delete error" ELSE "Readwise update error",
                  status) EXCEPT !.id = r.id, !.marked = r.marked]], c)
  /\ UNCHANGED <<pageSize, call, page, heard, later, summary, handled>>

\* the worker is stopped after the local write of an archive or delete and
\* before its upstream call has returned: nothing is rolled back
Abort(c) ==
  /\ req[c].pc = "upstream"
  /\ Deliver([req EXCEPT ![c] = IdleReq], c)
  /\ UNCHANGED <<docs, pageSize, call, page, heard, later, summary, handled>>

\* ---- handleTTS

\* new Response(JSON.stringify({ use_browser_tts: true, text }))
TTSFallback(text, upstreamStatus) ==
  [Response("tts", 200) EXCEPT !.body = "fallback", !.text = text,
                               !.upstream = upstreamStatus]

\* new Response(response.body, {'Content-Type': 'audio/mpeg'})
TTSAudio == [Response("tts", 200) EXCEPT !.body = "audio", !.upstream = 200]

\* const { text, voice } = await request.json(); the key test; the call is
\* built (text.slice) and sent.  parsed: the body is JSON; text: its text, Null
\* when it has none; hasKey: env.OPENAI_API_KEY is set.
TTSBody(c, parsed, text, hasKey) ==
  /\ req[c].pc = "ttsbody"
  /\ Deliver([req EXCEPT ![c] =
       IF ~parsed THEN ErrorResponse("tts", "SyntaxError", 0)
       ELSE IF ~hasKey THEN TTSFallback(text, 0)
       ELSE IF text = Null THEN ErrorResponse("tts", "TypeError", 0)
       ELSE [@ EXCEPT !.pc = "ttscall", !.text = text]], c)
  /\ UNCHANGED <<docs, pageSize, call, page, heard, later, summary, handled>>

\* the speech call answered with a status, or failed (status 0: fetch rejects
\* and the catch of the router answers)
TTSResponse(c, status) ==
  /\ req[c].pc = "ttscall"
  /\ Deliver([req EXCEPT ![c] =
       IF status = 0 THEN ErrorResponse("tts", "fetch failed", 0)
       ELSE IF status = 200 THEN TTSAudio
       ELSE TTSFallback(req[c].text, status)], c)
  /\ UNCHANGED <<docs, pageSize, call, page, heard, later, summary, handled>>

\* ---- the front end (the script of the page served at "/")

\* let articles = []; currentIndex = 0; isPlaying = false; the view is the
\* one of #loading, #player, #empty that is not hidden; audio is what sounds:
\* the summary of the current article, its full text, or nothing.  pc is the
\* await the script stands at (one request of the page at a time).  History
\* only: result, how the last request of the page ended; shown, the view when
\* the last sync began; acted, the id the last action was invoked on.
\* For the player: pending, the requests that are on their way, each with the
\* id it sent (0 for a sync); timers, the auto-advance timers that have not
\* fired.
ClosedPage ==
  [articles |-> <<>>, currentIndex |-> 0, isPlaying |-> FALSE, audio |-> "none",
   view |-> "empty", toast |-> "", pc |-> "idle",
   result |-> "none", shown |-> "empty", acted |-> 0,
   pending |-> {}, timers |-> 0]

showToast(p, msg) == [p EXCEPT !.toast = msg]
showLoading(p) == [p EXCEPT !.view = "loading"]
showPlayer(p) == [p EXCEPT !.view = "player"]
showEmpty(p) == [p EXCEPT !.view = "empty"]

\* speechSynth.cancel(); currentAudio.pause(); currentAudio = null
stop(p) == [p EXCEPT !.audio = "none"]

\* play(): speak(text) stops what sounds and starts the summary
play(p) ==
  IF p.articles = <<>> THEN p
  ELSE [stop(p) EXCEPT !.isPlaying = TRUE, !.audio = "summary"]

pause(p) == [stop(p) EXCEPT !.isPlaying = FALSE]

skipArticle(p) ==
  IF p.currentIndex < Len(p.articles) - 1
    THEN LET q == [stop(p) EXCEPT !.currentIndex = @ + 1]
         IN IF q.isPlaying THEN play(q) ELSE q
    ELSE showToast(p, "Last article")

\* articles.splice(index, 1), index counted from 0
Splice(s, index) ==
  IF index + 1 \in 1..Len(s)
    THEN SubSeq(s, 1, index) \o SubSeq(s, index + 2, Len(s))
    ELSE s

\* a variant that leaves the index where it was after the splice
removeCurrentArticle_NoClamp(p) ==
  LET q == [stop(p) EXCEPT !.articles = Splice(p.articles, p.currentIndex)]
  IN IF q.articles = <<>> THEN showEmpty(q) ELSE play(q)

removeCurrentArticle(p) ==
  LET q == [stop(p) EXCEPT !.articles = Splice(p.articles, p.currentIndex)]
  IN IF q.articles = <<>> THEN showEmpty(q)
     ELSE play([q EXCEPT !.currentIndex =
                  IF @ >= Len(q.articles) THEN Len(q.articles) - 1 ELSE @])

\* the page after DOMContentLoaded with the list cached in localStorage
LoadedPage(cached) ==
  IF Len(cached) > 0 THEN showPlayer([ClosedPage EXCEPT !.articles = cached])
  ELSE showEmpty(ClosedPage)

\* the lists of articles a feed can hold: distinct ids
ArticleLists ==
  {s \in UNION {[1..n -> Ids] : n \in 0..Cardinality(Ids)} :
     \A j, k \in 1..Len(s) : j # k => s[j] # s[k]}

\* the worker is not part of a step of the page
PageStep(p) ==
  /\ page' = p
  /\ UNCHANGED <<docs, pageSize, call, heard, later, summary, req, resp, handled>>

\* the buttons and voice commands that do not call the worker
PlayPressed == page.articles # <<>> /\ PageStep(play(page))
PausePressed == PageStep(pause(page))
SkipPressed == page.articles # <<>> /\ PageStep(skipArticle(page))

\* syncFeed() up to its await
SyncFeed ==
  /\ page.pc = "idle"
  /\ PageStep([showLoading(page) EXCEPT !.pc = "sync", !.shown = page.view,
                                        !.result = "none"])

\* syncFeed() after the await.  outcome: "ok", the worker answered with the
\* list; "error", it answered {error}; "rejected", fetch or response.json()
\* threw.
SyncFeedSettled(outcome, list) ==
  /\ page.pc = "sync"
  /\ PageStep(
       LET p == [page EXCEPT !.pc = "idle", !.result = outcome] IN
       IF outcome = "ok"
         THEN LET q == [p EXCEPT !.articles = list, !.currentIndex = 0]
              IN IF list = <<>> THEN showEmpty(q)
                 ELSE showToast(showPlayer(q), "articles loaded")
         ELSE showEmpty(showToast(p, "Sync failed")))

\* archiveArticle(), deleteArticle(), laterArticle() up to the await
ActionInvoked(kind) ==
  /\ page.pc = "idle"
  /\ page.articles # <<>>
  /\ PageStep([showToast(page, IF kind = "archive" THEN "Archiving..."
                               ELSE IF kind = "delete" THEN "Deleting..."
                               ELSE "Saved for later")
                 EXCEPT !.pc = kind, !.result = "none",
                        !.acted = page.articles[page.currentIndex + 1]])

\* the same after the await.  outcome: "ok", the worker answered
\* {success: true}; "error", it answered 500 {error}: fetch resolves all the
\* same and the answer is not looked at; "rejected", fetch threw.
ActionSettled(outcome) ==
  /\ page.pc \in {"archive", "delete", "later"}
  /\ PageStep(
       LET p == [page EXCEPT !.pc = "idle", !.result = outcome] IN
       IF outcome = "rejected" THEN showToast(p, "Failed")
       ELSE removeCurrentArticle(
              IF page.pc = "archive" THEN showToast(p, "Archived")
              ELSE IF page.pc = "delete" THEN showToast(p, "Deleted")
              ELSE p))

\* readFullArticle(): without content the reader is opened (openReader
\* pauses); with content the summary is stopped and the paragraphs are read
readFullArticle(hasContent) ==
  /\ page.articles # <<>>
  /\ PageStep(
       IF ~hasContent THEN pause(showToast(page, "No content, opening Reader..."))
       ELSE [stop(page) EXCEPT !.isPlaying = TRUE, !.audio = "full"])

previousArticle(p) ==
  IF p.currentIndex > 0
    THEN LET q == [stop(p) EXCEPT !.currentIndex = @ - 1]
         IN IF q.isPlaying THEN play(q) ELSE q
    ELSE showToast(p, "First article")

\* selectArticle(index): the index is that of an item of the rendered list
selectArticle(p, index) == play([p EXCEPT !.currentIndex = index])

\* a variant of the timer that plays the same article again
AutoAdvance_Replay(p) ==
  IF p.isPlaying /\ p.currentIndex < Len(p.articles) - 1
    THEN play(p)
  ELSE IF p.currentIndex >= Len(p.articles) - 1
    THEN showToast([p EXCEPT !.isPlaying = FALSE], "Finished all articles")
  ELSE p

\* the callback of setTimeout(..., 1000) in the onEnd of play()
AutoAdvance(p) ==
  IF p.isPlaying /\ p.currentIndex < Len(p.articles) - 1
    THEN play([p EXCEPT !.currentIndex = @ + 1])
  ELSE IF p.currentIndex >= Len(p.articles) - 1
    THEN showToast([p EXCEPT !.isPlaying = FALSE], "Finished all articles")
  ELSE p

PreviousPressed == PageStep(previousArticle(page))

\* a click on an item of the list, which is shown with the player and was
\* rendered from the list as it is
ArticleSelected(index) ==
  /\ page.view = "player"
  /\ index \in 0..(Len(page.articles) - 1)
  /\ PageStep(selectArticle(page, index))

\* utterance.onend / currentAudio.onended: onEnd() sets the timer.  natural:
\* the summary was spoken to its end; otherwise the end event of an utterance
\* that cancel() cut off, which some browsers deliver
UtteranceEnded(natural) ==
  /\ page.timers < MaxTimers
  /\ natural => page.audio = "summary"
  /\ PageStep([page EXCEPT !.timers = @ + 1,
                           !.audio = IF natural THEN "none" ELSE @])

TimerFired ==
  /\ page.timers > 0
  /\ PageStep(AutoAdvance([page EXCEPT !.timers = @ - 1]))

\* archiveArticle(), deleteArticle(), laterArticle() up to the await, while
\* other requests of the page may be on their way; without an article at the
\* index, article.id throws and the catch shows 'Failed'
ActionSent(kind) ==
  /\ Cardinality(page.pending) < MaxPending
  /\ LET p == showToast(page, IF kind = "archive" THEN "Archiving..."
                              ELSE IF kind = "delete" THEN "Deleting..."
                              ELSE "Saved for later")
     IN IF page.currentIndex + 1 \in 1..Len(page.articles)
          THEN LET rq == [kind |-> kind, id |-> page.articles[page.currentIndex + 1]]
               IN /\ rq \notin page.pending
                  /\ PageStep([p EXCEPT !.pending = @ \cup {rq}])
          ELSE PageStep(showToast(p, "Failed"))

\* the same after the await, for any of the requests on their way
ActionReturned(rq, outcome) ==
  /\ rq \in page.pending
  /\ rq.kind # "sync"
  /\ LET p == [page EXCEPT !.pending = @ \ {rq}] IN
     PageStep(
       IF outcome = "rejected" THEN showToast(p, "Failed")
       ELSE removeCurrentArticle(
              IF rq.kind = "archive" THEN showToast(p, "Archived")
              ELSE IF rq.kind = "delete" THEN showToast(p, "Deleted")
              ELSE p))

SyncRequest == [kind |-> "sync", id |-> 0]

\* syncFeed() up to its await, while other requests may be on their way
SyncSent ==
  /\ Cardinality(page.pending) < MaxPending
  /\ SyncRequest \notin page.pending
  /\ PageStep([showLoading(page) EXCEPT !.pending = @ \cup {SyncRequest}])

\* syncFeed() after the await
SyncReturned(outcome, list) ==
  /\ SyncRequest \in page.pending
  /\ LET p == [page EXCEPT !.pending = @ \ {SyncRequest}] IN
     PageStep(
       IF outcome = "ok"
         THEN LET q == [p EXCEPT !.articles = list, !.currentIndex = 0]
              IN IF list = <<>> THEN showEmpty(q)
                 ELSE showToast(showPlayer(q), "articles loaded")
         ELSE showEmpty(showToast(p, "Sync failed")))

\* ---- helpers

\* A string is the sequence of its characters; the alphabet is enough to
\* write www.a, a.www.a and awww.a.
Chars == {"w", "a", "."}

NoCall == [fn |-> "none", returned |-> FALSE, article |-> <<>>, result |-> <<>>]

UnknownSource == <<"Unknown source">>

\* the first index at which sub occurs in s, 0 when it does not
IndexOf(s, sub) ==
  LET at == {k \in 1..(Len(s) - Len(sub) + 1) : SubSeq(s, k, k + Len(sub) - 1) = sub}
  IN IF at = {} THEN 0 ELSE CHOOSE k \in at : \A j \in at : k <= j

\* s.replace(sub, ''): the first occurrence of sub, wherever it is, is removed
Replace(s, sub) ==
  LET k == IndexOf(s, sub)
  IN IF k = 0 THEN s ELSE SubSeq(s, 1, k - 1) \o SubSeq(s, k + Len(sub), Len(s))

\* extractSource(article).  site_name is <<>> when missing or empty;
\* source_url is given or not, new URL(source_url) parses or throws, and
\* hostname is the host of the parsed url.
extractSource(article) ==
  IF article.site_name # <<>> THEN article.site_name
  ELSE IF article.source_url.given
    THEN IF article.source_url.parses
           THEN Replace(article.source_url.hostname, <<"w", "w", "w", ".">>)
           ELSE UnknownSource
  ELSE UnknownSource

\* the host names: labels that are not empty, separated by dots
Hostnames ==
  {s \in UNION {[1..n -> Chars] : n \in 1..MaxHost} :
     /\ s[1] # "." /\ s[Len(s)] # "."
     /\ \A k \in 1..(Len(s) - 1) : ~(s[k] = "." /\ s[k + 1] = ".")}

SourceArticles ==
  {[site_name |-> n, source_url |-> u] :
     n \in {<<>>, <<"Site">>},
     u \in {[given |-> FALSE, parses |-> FALSE, hostname |-> <<>>],
            [given |-> TRUE, parses |-> FALSE, hostname |-> <<>>]}
           \cup {[given |-> TRUE, parses |-> TRUE, hostname |-> h] : h \in Hostnames}}

ExtractSourceCalled ==
  /\ ~call.returned
  /\ call' = [call EXCEPT !.returned = TRUE, !.result = extractSource(call.article)]
  /\ UNCHANGED <<docs, pageSize, heard, later, summary, req, resp, handled, page>>

\* ---- the specifications

\* the saved_at of document i: the store's order is not the order of saving
SavedAt(i) == (i * 2) % 5

\* where document i is when the model starts
InitLocation(i) == IF i % 2 = 1 THEN "new" ELSE "later"

InitKV ==
  /\ heard = {}
  /\ later = {}
  /\ summary = [i \in Ids |-> Null]
  /\ page = ClosedPage
  /\ call = NoCall
  /\ req = [c \in Clients |-> IdleReq]
  /\ resp = NoResponse
  /\ handled = {}

\* Two clients whose requests interleave at every await: c1 is the page's
\* sync, sending feed requests, and c2 its action buttons, sending archive,
\* delete and later requests.  A client sends its next request when the last
\* one has returned.
Init ==
  /\ docs = [i \in 1..RaceIds |->
       [exists |-> TRUE, location |-> InitLocation(i), category |-> "article",
        saved_at |-> SavedAt(i)]]
  /\ pageSize = 1
  /\ InitKV

Next ==
  \E c \in Clients :
    \/ /\ c = "c2"
       /\ \E id \in Ids : \E h \in {"archive", "delete", "later"} :
            StartRequest(c, "POST", <<"api", h>>, Null, id)
    \/ /\ c = "c1"
       /\ StartRequest(c, "GET", <<"api", "feed">>, Null, 0)
    \/ ListResponse(c, 200)
    \/ ScanHeard(c)
    \/ ScanLater(c)
    \/ CacheGet(c)
    \/ SummarizerOk(c, "s1")
    \/ SummarizerFail(c)
    \/ CachePut(c)
    \/ LaterDelete(c)
    \/ MarkerPut(c)
    \/ HeardDelete(c)
    \/ \E status \in {200, 404, 500} : UpstreamResponse(c, status)
    \/ Abort(c)

Spec == Init /\ [][Next]_vars

\* One client sending feed requests, one after the other, from every marker
\* state the actions can leave behind, over every scope, every answer of the
\* list call and of the summarizer.
InitFeed ==
  /\ docs \in {[i \in 1..NumIds |->
                 [exists |-> TRUE, location |-> l[i], category |-> "article",
                  saved_at |-> SavedAt(i)]] :
               l \in [1..NumIds -> {"new", "later", "archive"}]}
  /\ pageSize \in {1, NumIds}
  /\ heard \in SUBSET Ids
  /\ later \in SUBSET Ids
  /\ summary = [i \in Ids |-> Null]
  /\ page = ClosedPage
  /\ call = NoCall
  /\ req = [c \in Clients |-> IdleReq]
  /\ resp = NoResponse
  /\ handled = {}

NextFeed ==
  \/ \E q \in {Null, "feed", "library"} : StartRequest("c1", "GET", <<"api", "feed">>, q, 0)
  \/ \E status \in {200, 429, 401} : ListResponse("c1", status)
  \/ ScanHeard("c1")
  \/ ScanLater("c1")
  \/ CacheGet("c1")
  \/ \E text \in {"", "s1"} : SummarizerOk("c1", text)
  \/ SummarizerFail("c1")
  \/ CachePut("c1")
  \/ LaterDelete("c1")

SpecFeed == InitFeed /\ [][NextFeed]_vars

\* One client sending feed requests of every scope over documents of every
\* location and category, with no marker in the store and a summarizer that
\* answers.
InitScope ==
  /\ docs \in {[i \in 1..NumIds |->
                 [exists |-> TRUE, location |-> l[i], category |-> g[i],
                  saved_at |-> SavedAt(i)]] :
               l \in [1..NumIds -> Locations], g \in [1..NumIds -> Categories]}
  /\ pageSize = 1
  /\ InitKV

NextScope ==
  \/ \E q \in {Null, "", "all", "feed", "library"} :
       StartRequest("c1", "GET", <<"api", "feed">>, q, 0)
  \/ ListResponse("c1", 200)
  \/ ScanHeard("c1")
  \/ ScanLater("c1")
  \/ CacheGet("c1")
  \/ SummarizerOk("c1", "s1")
  \/ CachePut("c1")

SpecScope == InitScope /\ [][NextScope]_vars

\* One client sending feed requests to an upstream store of one page more
\* than the page cap, one document a page, of which at most MAX_ARTICLES are
\* articles.  Every call is answered in the end.
ManyIds == maxPages + 1

InitPages ==
  /\ docs \in {[i \in 1..ManyIds |->
                 [exists |-> TRUE, location |-> "new",
                  category |-> IF i \in A THEN "article" ELSE "email",
                  saved_at |-> SavedAt(i)]] :
               A \in {B \in SUBSET {1, 2, maxPages, ManyIds} : Cardinality(B) <= MAX_ARTICLES}}
  /\ pageSize = 1
  /\ InitKV

NextPages ==
  \/ StartRequest("c1", "GET", <<"api", "feed">>, Null, 0)
  \/ \E status \in {200, 429} : ListResponse("c1", status)
  \/ ScanHeard("c1")
  \/ ScanLater("c1")
  \/ CacheGet("c1")
  \/ SummarizerOk("c1", "s1")
  \/ CachePut("c1")

SpecPages == InitPages /\ [][NextPages]_vars /\ WF_vars(NextPages)

\* One client sending feed requests over one article more than the cap, all in
\* the inbox, read in one page or one document a page, from every marker state.
CapIds == MAX_ARTICLES + 1

InitCap ==
  /\ docs = [i \in 1..CapIds |->
               [exists |-> TRUE, location |-> "new", category |-> "article",
                saved_at |-> SavedAt(i)]]
  /\ pageSize \in {1, CapIds}
  /\ heard \in SUBSET Ids
  /\ later \in SUBSET Ids
  /\ summary = [i \in Ids |-> Null]
  /\ page = ClosedPage
  /\ call = NoCall
  /\ req = [c \in Clients |-> IdleReq]
  /\ resp = NoResponse
  /\ handled = {}

NextCap ==
  \/ StartRequest("c1", "GET", <<"api", "feed">>, Null, 0)
  \/ ListResponse("c1", 200)
  \/ ScanHeard("c1")
  \/ ScanLater("c1")
  \/ CacheGet("c1")
  \/ SummarizerOk("c1", "s1")
  \/ SummarizerFail("c1")
  \/ CachePut("c1")
  \/ LaterDelete("c1")

SpecCap == InitCap /\ [][NextCap]_vars

\* One client sending feed and speech requests one after the other.
NextTTS ==
  \/ NextScope
  \/ StartRequest("c1", "POST", <<"api", "tts">>, Null, 0)
  \/ \E parsed \in BOOLEAN : \E text \in {Null, "s1"} : \E hasKey \in BOOLEAN :
       TTSBody("c1", parsed, text, hasKey)
  \/ \E status \in {200, 429, 500, 0} : TTSResponse("c1", status)

SpecTTS == InitScope /\ [][NextTTS]_vars

\* One client sending feed requests to a worker whose summarizer credential
\* is missing: the summarizer rejects every call.  The store's token may be
\* missing as well (the list call is answered 401).
NextNoKey ==
  \/ \E q \in {Null, "feed", "library"} : StartRequest("c1", "GET", <<"api", "feed">>, q, 0)
  \/ \E status \in {200, 401} : ListResponse("c1", status)
  \/ ScanHeard("c1")
  \/ ScanLater("c1")
  \/ CacheGet("c1")
  \/ SummarizerFail("c1")

SpecNoKey == InitFeed /\ [][NextNoKey]_vars

\* Two clients sending feed requests at the same time over the same inbox
\* articles, from every later-marker state, with a summarizer that may answer
\* the same article with different texts.
InitRace ==
  /\ docs = [i \in 1..RaceIds |->
               [exists |-> TRUE, location |-> "new", category |-> "article",
                saved_at |-> SavedAt(i)]]
  /\ pageSize = 1
  /\ heard = {}
  /\ later \in SUBSET Ids
  /\ summary = [i \in Ids |-> Null]
  /\ page = ClosedPage
  /\ call = NoCall
  /\ req = [c \in Clients |-> IdleReq]
  /\ resp = NoResponse
  /\ handled = {}

NextRace ==
  \E c \in Clients :
    \/ StartRequest(c, "GET", <<"api", "feed">>, Null, 0)
    \/ ListResponse(c, 200)
    \/ ScanHeard(c)
    \/ ScanLater(c)
    \/ CacheGet(c)
    \/ \E text \in {"s1", "s2"} : SummarizerOk(c, text)
    \/ CachePut(c)
    \/ LaterDelete(c)

SpecRace == InitRace /\ [][NextRace]_vars

\* The page alone: it was loaded with a cached list, and the user plays,
\* pauses, skips, syncs, acts on the current article and reads it in full;
\* the worker is the outcome of each call.
InitPage ==
  /\ docs = [i \in 1..NumIds |->
               [exists |-> TRUE, location |-> "new", category |-> "article",
                saved_at |-> SavedAt(i)]]
  /\ pageSize = 1
  /\ heard = {}
  /\ later = {}
  /\ summary = [i \in DOMAIN docs |-> Null]
  /\ req = [c \in Clients |-> IdleReq]
  /\ resp = NoResponse
  /\ handled = {}
  /\ page \in {LoadedPage(cached) : cached \in ArticleLists}
  /\ call = NoCall

NextPage ==
  \/ PlayPressed
  \/ PausePressed
  \/ SkipPressed
  \/ SyncFeed
  \/ \E outcome \in {"ok", "error", "rejected"} : \E list \in ArticleLists :
       SyncFeedSettled(outcome, list)
  \/ \E kind \in {"archive", "delete", "later"} : ActionInvoked(kind)
  \/ \E outcome \in {"ok", "error", "rejected"} : ActionSettled(outcome)
  \/ \E hasContent \in BOOLEAN : readFullArticle(hasContent)

SpecPage == InitPage /\ [][NextPage]_vars

\* extractSource called once on an article of every shape
InitSource ==
  /\ docs = [i \in 1..NumIds |->
               [exists |-> TRUE, location |-> "new", category |-> "article",
                saved_at |-> SavedAt(i)]]
  /\ pageSize = 1
  /\ heard = {}
  /\ later = {}
  /\ summary = [i \in DOMAIN docs |-> Null]
  /\ req = [c \in Clients |-> IdleReq]
  /\ resp = NoResponse
  /\ handled = {}
  /\ page = LoadedPage(<<>>)
  /\ call \in {[NoCall EXCEPT !.fn = "extractSource", !.article = a] : a \in SourceArticles}

NextSource == ExtractSourceCalled

SpecSource == InitSource /\ [][NextSource]_vars

\* One client sending requests of several methods to the paths of the routes
\* that ask for POST and to an unknown path; each handler runs to its end.
Methods == {"GET", "POST", "OPTIONS"}

RoutePaths ==
  {<<"unknown", "path">>, <<"api", "tts">>,
   <<"api", "archive">>, <<"api", "delete">>, <<"api", "later">>}

NextRoute ==
  \/ \E method \in Methods : \E path \in RoutePaths : \E id \in Ids :
       StartRequest("c1", method, path, Null, id)
  \/ MarkerPut("c1")
  \/ HeardDelete("c1")
  \/ \E status \in {200, 404, 500} : UpstreamResponse("c1", status)
  \/ \E text \in {Null, "s1"} : \E hasKey \in BOOLEAN : TTSBody("c1", TRUE, text, hasKey)
  \/ \E status \in {200, 500} : TTSResponse("c1", status)

SpecRoute == Init /\ [][NextRoute]_vars

\* One client sending feed requests of two scopes over one article more than
\* the cap, in the inbox or in later, read in one page, from every
\* later-marker state, with a summarizer that may fail.
InitLater ==
  /\ docs \in {[i \in 1..CapIds |->
                 [exists |-> TRUE, location |-> l[i], category |-> "article",
                  saved_at |-> SavedAt(i)]] :
               l \in [1..CapIds -> {"new", "later"}]}
  /\ pageSize = CapIds
  /\ heard = {}
  /\ later \in SUBSET Ids
  /\ summary = [i \in DOMAIN docs |-> Null]
  /\ req = [c \in Clients |-> IdleReq]
  /\ resp = NoResponse
  /\ handled = {}
  /\ page = ClosedPage
  /\ call = NoCall

NextLater ==
  \/ \E q \in {Null, "feed"} : StartRequest("c1", "GET", <<"api", "feed">>, q, 0)
  \/ ListResponse("c1", 200)
  \/ ScanHeard("c1")
  \/ ScanLater("c1")
  \/ CacheGet("c1")
  \/ SummarizerOk("c1", "s1")
  \/ SummarizerFail("c1")
  \/ CachePut("c1")
  \/ LaterDelete("c1")

SpecLater == InitLater /\ [][NextLater]_vars

\* A page that syncs while another client archives, deletes and defers, all
\* articles read in one page: the last article is only ever deferred, the
\* others are only archived or deleted.
Untouched == NumIds

InitServe ==
  /\ docs = [i \in 1..NumIds |->
               [exists |-> TRUE, location |-> InitLocation(i), category |-> "article",
                saved_at |-> SavedAt(i)]]
  /\ pageSize = NumIds
  /\ InitKV

NextServe ==
  \/ StartRequest("c1", "GET", <<"api", "feed">>, Null, 0)
  \/ \E id \in Ids \ {Untouched} : \E h \in {"archive", "delete"} :
       StartRequest("c2", "POST", <<"api", h>>, Null, id)
  \/ StartRequest("c2", "POST", <<"api", "later">>, Null, Untouched)
  \/ \E c \in Clients :
       \/ ListResponse(c, 200)
       \/ ScanHeard(c)
       \/ ScanLater(c)
       \/ CacheGet(c)
       \/ SummarizerOk(c, "s1")
       \/ CachePut(c)
       \/ LaterDelete(c)
       \/ MarkerPut(c)
       \/ HeardDelete(c)
       \/ \E status \in {200, 500} : UpstreamResponse(c, status)

SpecServe == InitServe /\ [][NextServe]_vars

\* A page that syncs while another client defers, starting where every article
\* is marked heard by an archive whose upstream call failed; no archive and no
\* delete follows.
InitDefer ==
  /\ docs = [i \in 1..RaceIds |->
               [exists |-> TRUE, location |-> "new", category |-> "article",
                saved_at |-> SavedAt(i)]]
  /\ pageSize = 1
  /\ heard = Ids
  /\ handled = Ids
  /\ later = {}
  /\ summary = [i \in Ids |-> Null]
  /\ page = ClosedPage
  /\ call = NoCall
  /\ req = [c \in Clients |-> IdleReq]
  /\ resp = NoResponse

NextDefer ==
  \/ StartRequest("c1", "GET", <<"api", "feed">>, Null, 0)
  \/ \E id \in Ids : StartRequest("c2", "POST", <<"api", "later">>, Null, id)
  \/ \E c \in Clients :
       \/ ListResponse(c, 200)
       \/ ScanHeard(c)
       \/ ScanLater(c)
       \/ CacheGet(c)
       \/ \E text \in {"s1", "s2"} : SummarizerOk(c, text)
       \/ SummarizerFail(c)
       \/ CachePut(c)
       \/ LaterDelete(c)
       \/ MarkerPut(c)
       \/ HeardDelete(c)

SpecDefer == InitDefer /\ [][NextDefer]_vars

\* The player: the page was loaded with a cached list; the user plays, pauses,
\* skips, goes back, picks from the list, syncs and acts on the current
\* article while earlier requests are on their way; utterances end, timers
\* fire and the responses arrive in any order.
NextPlayer ==
  \/ PlayPressed
  \/ PausePressed
  \/ SkipPressed
  \/ PreviousPressed
  \/ \E index \in 0..(NumIds - 1) : ArticleSelected(index)
  \/ \E natural \in BOOLEAN : UtteranceEnded(natural)
  \/ TimerFired
  \/ SyncSent
  \/ \E outcome \in {"ok", "rejected"} : \E list \in ArticleLists :
       SyncReturned(outcome, list)
  \/ \E kind \in {"archive", "later"} : ActionSent(kind)
  \/ \E rq \in page.pending : \E outcome \in {"ok", "rejected"} :
       ActionReturned(rq, outcome)

SpecPlayer == InitPage /\ [][NextPlayer]_vars

\* The player left alone: the page was loaded with a cached list of up to
\* QueueLen articles; the user starts playback, by the play button or on an
\* item of the list, only while nothing plays and no timer is set, and gives no
\* input until playback has stopped.  Every utterance ends and every timer
\* fires.
InitAuto ==
  /\ docs = [i \in 1..QueueLen |->
               [exists |-> TRUE, location |-> "new", category |-> "article",
                saved_at |-> SavedAt(i)]]
  /\ pageSize = 1
  /\ heard = {}
  /\ later = {}
  /\ summary = [i \in DOMAIN docs |-> Null]
  /\ req = [c \in Clients |-> IdleReq]
  /\ resp = NoResponse
  /\ handled = {}
  /\ page \in {LoadedPage(cached) : cached \in ArticleLists}
  /\ call = NoCall

Quiet == ~page.isPlaying /\ page.audio = "none" /\ page.timers = 0

NextAuto ==
  \/ Quiet /\ PlayPressed
  \/ Quiet /\ \E index \in 0..(QueueLen - 1) : ArticleSelected(index)
  \/ UtteranceEnded(TRUE)
  \/ TimerFired

SpecAuto ==
  InitAuto /\ [][NextAuto]_vars /\ WF_vars(UtteranceEnded(TRUE)) /\ WF_vars(TimerFired)

\* A user who syncs again and again and archives, between two syncs, every
\* article that was served, over the upstream store of SpecPages; every call
\* is answered with success in the end.
ArchiveServed ==
  \/ \E id \in Ids :
       /\ req["c1"].pc = "idle"
       /\ summary[id] # Null /\ docs[id].location # "archive"
       /\ StartRequest("c2", "POST", <<"api", "archive">>, Null, id)
  \/ MarkerPut("c2")
  \/ UpstreamResponse("c2", 200)

SyncAgain ==
  \/ StartRequest("c1", "GET", <<"api", "feed">>, Null, 0)
  \/ ListResponse("c1", 200)
  \/ ScanHeard("c1")
  \/ ScanLater("c1")
  \/ CacheGet("c1")
  \/ SummarizerOk("c1", "s1")
  \/ CachePut("c1")

NextEventual == SyncAgain \/ ArchiveServed

SpecEventual ==
  InitPages /\ [][NextEventual]_vars /\ WF_vars(SyncAgain) /\ WF_vars(ArchiveServed)

\* ---- worker.js, the first worker: one list call without pagination, no
\* summary cache, and a router that returns the handler's promise unawaited

\* path === '/api/feed' and so on: the routing table of the first worker
RouteV1(method, path) ==
  IF method = "OPTIONS" THEN "options"
  ELSE IF path = <<>> \/ path = <<"index.html">> THEN "html"
  ELSE IF path = <<"api", "feed">> THEN "feed"
  ELSE IF path = <<"api", "archive">> /\ method = "POST" THEN "archive"
  ELSE IF path = <<"api", "delete">> /\ method = "POST" THEN "delete"
  ELSE IF path = <<"api", "later">> /\ method = "POST" THEN "later"
  ELSE IF path = <<"manifest.json">> THEN "manifest"
  ELSE "notfound"

\* return handleFeed(request, env, corsHeaders) inside the try, without await:
\* an error thrown in the handler rejects the promise fetch has already
\* returned, the catch of fetch never runs, and the caller's await throws.
\* Status 0 stands for "no Response".
Rejected(kind, msg, upstreamStatus) ==
  [Response(kind, 0) EXCEPT !.error = msg, !.upstream = upstreamStatus]

StartRequestV1(c, method, path) ==
  /\ req[c].pc = "idle"
  /\ LET h == RouteV1(method, path)
     IN Deliver([req EXCEPT ![c] =
          IF h = "feed" THEN [IdleReq EXCEPT !.kind = "feed", !.pc = "v1list",
                                             !.location = "all"]
          ELSE IF h = "notfound" THEN Response(h, 404)
          ELSE Response(h, 200)], c)
  /\ UNCHANGED <<docs, pageSize, call, page, heard, later, summary, handled>>

\* fetchReadwiseArticles: if (!response.ok) throw; else the results of the
\* one page, less the archived documents and those that are not articles
FetchOutcomeV1(r, status) ==
  IF status # 200 THEN Rejected("feed", "Readwise API error", status)
  ELSE [r EXCEPT !.pc = "v1heard", !.all = PageArticles(1, "all"), !.upstream = status]

ListResponseV1(c, status) ==
  /\ req[c].pc = "v1list"
  /\ Deliver([req EXCEPT ![c] = FetchOutcomeV1(req[c], status)], c)
  /\ UNCHANGED <<docs, pageSize, call, page, heard, later, summary, handled>>

ScanHeardV1(c) ==
  /\ req[c].pc = "v1heard"
  /\ Deliver([req EXCEPT ![c] = [@ EXCEPT !.pc = "v1later", !.heardIds = heard]], c)
  /\ UNCHANGED <<docs, pageSize, call, page, heard, later, summary, handled>>

\* newArticles.slice(0, 30)
Sliced(s) == SubSeq(s, 1, IF Len(s) < SliceLimit THEN Len(s) ELSE SliceLimit)

\* new Response(JSON.stringify({ articles: summaries }))
FeedResponseV1(r) ==
  [Response("feed", 200) EXCEPT !.articles = r.summaries, !.failed = r.failed,
                                !.cand = Sliced(r.newArticles), !.upstream = r.upstream]

LoopHeadV1(r) ==
  IF r.idx <= Len(Sliced(r.newArticles))
    THEN [r EXCEPT !.pc = "v1summarize"]
    ELSE FeedResponseV1(r)

NextArticleV1(r) == LoopHeadV1([r EXCEPT !.idx = r.idx + 1])

ScanLaterV1(c) ==
  /\ req[c].pc = "v1later"
  /\ LET r == req[c] IN
     Deliver([req EXCEPT ![c] =
       LoopHeadV1([r EXCEPT !.laterIds = later,
                            !.newArticles = FilterByMarkers(r.all, r.heardIds, later),
                            !.all = <<>>, !.heardIds = {}, !.idx = 1])], c)
  /\ UNCHANGED <<docs, pageSize, call, page, heard, later, summary, handled>>

\* const summary = await summarizeArticle(article, env); summaries.push(...);
\* if (laterIds.has(article.id)) await env.KV.delete(...)
SummarizerOkV1(c, text) ==
  /\ req[c].pc = "v1summarize"
  /\ LET r == req[c]
         a == Sliced(r.newArticles)[r.idx]
         r2 == [r EXCEPT !.summaries = Append(r.summaries, FeedItem(a, text))]
     IN Deliver([req EXCEPT ![c] =
          IF a.id \in r.laterIds THEN [r2 EXCEPT !.pc = "v1laterdel"]
          ELSE NextArticleV1(r2)], c)
  /\ UNCHANGED <<docs, pageSize, call, page, heard, later, summary, handled>>

\* summarizeArticle throws; catch (error) { console.error(...) }
SummarizerFailV1(c) ==
  /\ req[c].pc = "v1summarize"
  /\ LET r == req[c] IN
     Deliver([req EXCEPT ![c] =
       NextArticleV1([r EXCEPT !.failed = @ \cup {Sliced(r.newArticles)[r.idx].id}])], c)
  /\ UNCHANGED <<docs, pageSize, call, page, heard, later, summary, handled>>

LaterDeleteV1(c) ==
  /\ req[c].pc = "v1laterdel"
  /\ later' = later \ {Sliced(req[c].newArticles)[req[c].idx].id}
  /\ Deliver([req EXCEPT ![c] = NextArticleV1(req[c])], c)
  /\ UNCHANGED <<docs, pageSize, call, page, heard, summary, handled>>

\* One client of the first worker sending GET requests, one after the other.
NextV1 ==
  \/ \E path \in {<<"api", "feed">>, <<"api", "later">>, <<"manifest.json">>} :
       StartRequestV1("c1", "GET", path)
  \/ \E status \in {200, 401} : ListResponseV1("c1", status)
  \/ ScanHeardV1("c1")
  \/ ScanLaterV1("c1")
  \/ SummarizerOkV1("c1", "s1")
  \/ SummarizerFailV1("c1")
  \/ LaterDeleteV1("c1")

SpecV1 == InitFeed /\ [][NextV1]_vars


\* ---- helpers of the claims

IdsOf(items) == {items[k].id : k \in 1..Len(items)}
IdSeq(items) == [k \in 1..Len(items) |-> items[k].id]

\* the feed response the last step returned, if it returned one
FeedReturned == resp.client # "none" /\ resp.r.kind = "feed"

\* ---- C1
\* C1: the marker filter keeps a fetched candidate if and only if no heard:<id>
\* key existed when the heard keys were scanned or a later:<id> key exists when
\* the later keys are scanned; nothing outside the kept list is ever pushed to
\* the output.  Stated on the step that scans the later keys and filters.
C1_Kept(c) ==
  IF resp'.client = c THEN {} ELSE IdsOf(req'[c].newArticles)

C1_MarkerFilter ==
  [][\A c \in Clients :
       /\ (req[c].pc = "heard" /\ req'[c].pc = "later") => req'[c].heardIds = heard
       /\ (req[c].pc = "later" /\ (req'[c].pc = "cacheget" \/ resp'.client = c)) =>
            /\ \A i \in IdsOf(req[c].all) :
                 i \in C1_Kept(c) <=> (i \notin req[c].heardIds \/ i \in later)
            /\ C1_Kept(c) \subseteq IdsOf(req[c].all)
            /\ resp'.client = c => resp'.r.total = 0
       /\ IdsOf(req'[c].summaries) \subseteq IdsOf(req'[c].newArticles)
       /\ (resp'.client = c /\ req[c].kind = "feed" /\ req[c].pc \notin {"list", "later"}) =>
            IdsOf(resp'.r.articles) \subseteq IdsOf(req[c].newArticles)
    ]_vars

\* an article carrying both markers is served
C1_Witness ==
  \E c \in Clients : \E k \in 1..Len(req[c].summaries) :
    /\ req[c].summaries[k].id \in heard
    /\ req[c].summaries[k].id \in req[c].laterIds

\* ---- C2
\* C2: in every scope and under every combination of heard and later markers,
\* no article the upstream store holds in location archive is in the output of
\* a feed request.
C2_Items(items) ==
  \A k \in 1..Len(items) :
    items[k].location # "archive" /\ docs[items[k].id].location # "archive"

C2_NoArchived ==
  /\ \A c \in Clients : C2_Items(req[c].summaries) /\ C2_Items(req[c].all)
  /\ C2_Items(resp.r.articles)

\* a feed answers with articles while an archived article carries a later marker
C2_Witness ==
  /\ FeedReturned /\ Len(resp.r.articles) > 0
  /\ \E i \in Ids : docs[i].location = "archive" /\ i \in later /\ i \in heard

\* ---- C3
\* C3: a getCachedOrSummarize call that finds summary:<id> stored by an earlier
\* call issues no summarizer call, whatever text was stored.
C3_OneSummarizerCall ==
  [][\A c \in Clients :
       (req[c].pc = "cacheget" /\ req'[c].pc = "summarize") =>
          summary[CurrentArticle(req[c]).id] = Null
    ]_vars

\* ---- C4
\* C4: when summarization fails for some of the capped candidates the feed
\* request still answers 200 and its articles are exactly the candidates that
\* did not fail, in their order.
C4_FailuresSkipped ==
  (FeedReturned /\ resp.r.upstream = 200) =>
     /\ resp.r.status = 200
     /\ IdSeq(resp.r.articles) =
          SelectSeq(IdSeq(resp.r.cand), LAMBDA i : i \notin resp.r.failed)

\* the first of two candidates failed and the second is served
C4_Witness ==
  /\ FeedReturned /\ Len(resp.r.cand) = 2
  /\ resp.r.cand[1].id \in resp.r.failed
  /\ IdSeq(resp.r.articles) = <<resp.r.cand[2].id>>

C6_GracefulListError ==
  (resp.client # "none" /\ resp.r.kind = "feed" /\ resp.r.upstream \notin {0, 200})
     => (resp.r.status = 200 /\ resp.r.articles = <<>>)

\* ---- C7
\* C7: whenever the PATCH or DELETE of an archive or delete request is out, or
\* has been answered, the request's KV put of heard:<id> has completed.
C7_MarkerBeforeMutation ==
  /\ \A c \in Clients :
       (req[c].kind \in {"archive", "delete"} /\ (req[c].pc = "upstream" \/ req[c].upstream # 0))
          => (req[c].marked /\ req[c].pc # "put")
  /\ (resp.r.kind \in {"archive", "delete"} /\ resp.r.upstream # 0) => resp.r.marked

\* the DELETE is out and the marker is there
C7_Witness ==
  \E c \in Clients :
    req[c].kind = "delete" /\ req[c].pc = "upstream" /\ req[c].id \in heard

\* ---- C8
\* C8: when the upstream store answers the PATCH of an archive, or the DELETE
\* of a delete, with a failure (not 2xx, and not 404 for a delete), the caller
\* gets an error response and not {success: true}, and the step that answers
\* leaves every marker as it was: the heard marker is not rolled back.
C8_UpstreamFailed(kind, status) ==
  status \notin {200, 204} /\ ~(kind = "delete" /\ status = 404)

C8_ErrorNoRollback ==
  [][\A c \in Clients :
       (req[c].pc = "upstream" /\ resp'.client = c
          /\ C8_UpstreamFailed(req[c].kind, resp'.r.upstream)) =>
            /\ resp'.r.status = 500 /\ ~resp'.r.success /\ resp'.r.error # Null
            /\ heard' = heard /\ later' = later
            /\ (req[c].id \in heard => req[c].id \in heard')
    ]_vars

\* the archive failed upstream and its marker is still there
C8_Witness ==
  /\ resp.client # "none" /\ resp.r.kind = "archive" /\ resp.r.status = 500
  /\ resp.r.upstream = 500 /\ resp.r.marked /\ resp.r.id \in heard

\* ---- C9
\* C9: no feed request received after an archive or delete wrote heard:<id>,
\* with no later request for id received since, has id in its output.
C9_NeverResurfaces ==
  /\ \A c \in Clients : IdsOf(req[c].summaries) \cap req[c].after = {}
  /\ FeedReturned => IdsOf(resp.r.articles) \cap resp.r.after = {}

\* ---- C10
\* C10 as stated: when a later request returns, the response is
\* {success: true}, later:<id> is present and heard:<id> is absent.
C10_DeferPost ==
  [][\A c \in Clients :
       (req[c].kind = "later" /\ resp'.client = c) =>
          /\ resp'.r.status = 200 /\ resp'.r.success
          /\ req[c].id \in later' /\ req[c].id \notin heard'
    ]_vars

\* C10 as amended: when a later request returns, the response is
\* {success: true} and heard:<id> is absent; later:<id> is present unless a
\* feed request deleted it after the later request's put.
C10_DeferPostUnlessRaced ==
  [][\A c \in Clients :
       (req[c].kind = "later" /\ resp'.client = c) =>
          /\ resp'.r.status = 200 /\ resp'.r.success
          /\ req[c].id \notin heard'
          /\ ~resp'.r.raced => req[c].id \in later'
    ]_vars

\* a later request has returned while a feed request is in flight, and left
\* later:<id> present and heard:<id> absent
C10_Witness ==
  /\ resp.client # "none" /\ resp.r.kind = "later" /\ resp.r.success
  /\ resp.r.id \in later /\ resp.r.id \notin heard
  /\ docs[resp.r.id].location # "archive" /\ docs[resp.r.id].exists
  /\ \E c \in Clients : req[c].kind = "feed"

\* ---- C11
\* C11: when a feed request returns, every candidate that carried a later
\* marker at the scan and whose summarization did not fail is in the output,
\* and its later:<id> key is absent from the store.
C11_ServedLaterCleared ==
  [][(req["c1"].kind = "feed" /\ resp'.client = "c1" /\ resp'.r.status = 200) =>
       \A i \in req["c1"].laterIds :
         (i \in IdsOf(resp'.r.cand) /\ i \notin resp'.r.failed) =>
            (i \in IdsOf(resp'.r.articles) /\ i \notin later')
    ]_vars

\* a heard article was served, which its later marker allowed, and the later
\* marker is gone
C11_Witness ==
  /\ FeedReturned
  /\ \E k \in 1..Len(resp.r.articles) :
       resp.r.articles[k].id \in heard /\ resp.r.articles[k].id \notin later

\* ---- C12
\* C12: a delete request whose upstream DELETE is answered 2xx, or 404 because
\* an earlier delete removed the document, returns {success: true}, and
\* heard:<id> is present when it returns.
C12_DeleteTwice ==
  (resp.client # "none" /\ resp.r.kind = "delete" /\ resp.r.upstream \in {200, 204, 404}) =>
     /\ resp.r.status = 200 /\ resp.r.success
     /\ resp.r.id \in heard

\* the second delete of a document: not found upstream, answered with success
C12_Witness ==
  /\ resp.client # "none" /\ resp.r.kind = "delete" /\ resp.r.upstream = 404
  /\ resp.r.success /\ resp.r.id \in heard /\ ~docs[resp.r.id].exists

\* ---- C13
\* what a successful action request leaves of its id: archive, heard:<id> and
\* the document archived; delete, heard:<id> and no document; later,
\* later:<id> and no heard:<id>
Settled(kind, id, h, l, d) ==
  IF kind = "archive" THEN id \in h /\ d[id].exists /\ d[id].location = "archive"
  ELSE IF kind = "delete" THEN id \in h /\ ~d[id].exists
  ELSE id \in l /\ id \notin h

C13_OwnStep(c) == req'[c].pc # req[c].pc \/ resp'.client = c

\* C13: an archive, delete or later request that returns success leaves the
\* markers and the document of its id settled (archive: heard and archived;
\* delete: heard and gone; later: later and not heard; a later marker that a
\* running feed request deleted after the put is excepted), and every step of
\* such a request taken when they are settled already changes no marker and
\* no document: the second application leaves what the first left.
C13_Idempotent ==
  [][\A c \in Clients :
       (req[c].kind \in {"archive", "delete", "later"} /\ C13_OwnStep(c)) =>
          /\ (resp'.client = c /\ resp'.r.success /\ ~resp'.r.raced) =>
                Settled(req[c].kind, req[c].id, heard', later', docs')
          /\ Settled(req[c].kind, req[c].id, heard, later, docs) =>
                (heard' = heard /\ later' = later /\ docs' = docs)
    ]_vars

\* a delete repeated on a deleted document has returned: its last step found
\* the marker and no document, and left them so
C13_Witness ==
  /\ resp.client # "none" /\ resp.r.kind = "delete" /\ resp.r.marked
  /\ resp.r.upstream = 404 /\ resp.r.status = 200
  /\ Settled("delete", resp.r.id, heard, later, docs)

\* ---- C14
InScope(i, scope) ==
  /\ docs[i].category = "article"
  /\ docs[i].location # "archive"
  /\ scope = "feed" => docs[i].location \in {"new", "feed"}
  /\ scope = "library" => docs[i].location \in {"later", "shortlist"}

InTab(i, scope) ==
  /\ docs[i].category = "article"
  /\ scope = "feed" => docs[i].location = "feed"
  /\ scope = "library" => docs[i].location \in {"new", "later", "shortlist"}

\* C15: with location=feed the candidates are the articles located in feed,
\* and with location=library they are the articles located in new, later or
\* shortlist.
C15_TabContents ==
  \A c \in Clients :
    (req[c].pc = "heard" /\ req[c].location \in {"feed", "library"}) =>
       IdsOf(req[c].all) = {i \in Ids : InTab(i, req[c].location)}

\* ---- C16
RecentFirst(items) ==
  \A i, j \in 1..Len(items) :
    i < j => docs[items[i].id].saved_at >= docs[items[j].id].saved_at

\* C16: the sorted candidate list, the filtered list, the summaries pushed so
\* far and the output of a feed request are ordered by saved_at, most recent
\* first, whatever the order of the pages; the output keeps the relative order
\* of the candidates.
C16_RecentFirst ==
  /\ \A c \in Clients :
       /\ req[c].pc = "heard" => RecentFirst(req[c].all)
       /\ RecentFirst(req[c].newArticles) /\ RecentFirst(req[c].summaries)
  /\ FeedReturned =>
       /\ RecentFirst(resp.r.articles) /\ RecentFirst(resp.r.cand)
       /\ IdSeq(resp.r.articles) =
            SelectSeq(IdSeq(resp.r.cand), LAMBDA i : i \in IdsOf(resp.r.articles))

\* two articles are returned in the reverse of the order of their pages
C16_Witness ==
  /\ FeedReturned /\ Len(resp.r.articles) = 2 /\ pageSize = 1
  /\ resp.r.articles[1].id > resp.r.articles[2].id
  /\ docs[resp.r.articles[1].id].saved_at > docs[resp.r.articles[2].id].saved_at

\* ---- C17
\* C17: a list call answered 429 is repeated for the same page, with the
\* cursor, the page count and the accumulated articles as they were, and a page
\* gets at most RETRIES requests; an answer of 200 is processed the same
\* whatever the number of 429 answers before it; the RETRIES-th 429 in a row
\* ends the request with the error.
C17_RetrySamePage ==
  [][\A c \in Clients :
       req[c].pc = "list" =>
          /\ req[c].retries \in 1..RETRIES
          /\ (req'[c].pc = "list" /\ req'[c].upstream = 429 /\ req'[c] # req[c]) =>
                /\ req'[c].retries = req[c].retries - 1
                /\ req'[c].cursor = req[c].cursor /\ req'[c].pageCount = req[c].pageCount
                /\ req'[c].all = req[c].all
          /\ (resp'.client = c /\ resp'.r.upstream = 429) =>
                (req[c].retries = 1 /\ resp'.r.status = 500)
          /\ (req'[c].upstream = 200 /\ req'[c] # req[c]) =>
                req'[c] = [AfterPage([req[c] EXCEPT !.retries = RETRIES]) EXCEPT !.upstream = 200]
    ]_vars

\* the second page has been answered 429 twice and is about to be asked again
C17_Witness ==
  \E c \in Clients :
    /\ req[c].pc = "list" /\ req[c].upstream = 429 /\ req[c].retries = 1
    /\ req[c].cursor = 2 /\ req[c].pageCount = 1 /\ Len(req[c].all) = 1

\* ---- C18
\* C18: the list loop ends after every answered call sequence: while it runs
\* fewer than maxPages pages have been fetched, fewer than MAX_ARTICLES
\* articles are accumulated and the page in hand has requests left out of
\* RETRIES; after a fetched page it stops exactly when the cursor is null, the
\* page count has reached maxPages or the articles have reached MAX_ARTICLES;
\* and a request in the loop leaves it.
C18_PaginationBounded ==
  /\ [](\A c \in Clients :
          req[c].pc = "list" =>
             /\ req[c].pageCount < maxPages
             /\ Len(req[c].all) < MAX_ARTICLES
             /\ req[c].retries \in 1..RETRIES)
  /\ [][\A c \in Clients :
          (req[c].pc = "list" /\ req'[c].upstream = 200 /\ req'[c] # req[c]) =>
             LET p == IF req[c].cursor = 0 THEN 1 ELSE req[c].cursor
             IN (req'[c].pc = "heard") <=>
                  \/ NextPageCursor(p) = 0
                  \/ req[c].pageCount + 1 >= maxPages
                  \/ Len(req[c].all) + Len(PageArticles(p, req[c].location)) >= MAX_ARTICLES
      ]_vars
  /\ (req["c1"].pc = "list") ~> (req["c1"].pc # "list")

\* the loop stopped at the page cap: the article of the page after the cap was
\* never fetched
C18_Witness ==
  /\ req["c1"].pc = "heard" /\ req["c1"].all = <<>>
  /\ Cardinality(Ids) > maxPages /\ pageSize = 1
  /\ \E i \in Ids : i > maxPages /\ KeepDoc(i, "all")

\* ---- C19
\* the kept articles of a running feed request that lie beyond the cap
C19_Dropped(r) == IdsOf(r.newArticles) \ IdsOf(Capped(r.newArticles))

\* C19: a feed response has at most MAX_ARTICLES items, and no step of a feed
\* request creates, changes or removes a marker or a summary of a kept article
\* beyond the cap: such an article passes the scope and marker filters again
\* after every step, the returning one included.
C19_CapNoMarker ==
  [][LET r == req["c1"] IN
       (r.kind = "feed" /\ r.pc \notin {"list", "heard", "later"}) =>
          /\ resp'.client = "c1" =>
               /\ Len(resp'.r.articles) <= MAX_ARTICLES
               /\ IdsOf(resp'.r.articles) \cap C19_Dropped(r) = {}
          /\ \A i \in C19_Dropped(r) :
               /\ (i \in heard') <=> (i \in heard)
               /\ (i \in later') <=> (i \in later)
               /\ summary'[i] = summary[i] /\ docs'[i] = docs[i]
               /\ KeepDoc(i, r.location) /\ MarkerKeep(i, heard', later')
    ]_vars

\* a feed request that follows one that served an article: an article beyond
\* the cap is among its kept articles again
C19_Witness ==
  LET r == req["c1"] IN
    /\ r.kind = "feed" /\ r.pc = "cacheget" /\ r.idx = 1
    /\ \E j \in Ids : summary[j] # Null
    /\ Len(r.newArticles) > MAX_ARTICLES
    /\ \E i \in C19_Dropped(r) : i \notin heard /\ i \notin later /\ summary[i] = Null

\* ---- C20
\* C20: the response to a speech request with a well-formed body is the audio
\* stream or the 200 fallback {use_browser_tts: true, text}, whether the key
\* is missing, the provider answers a non-2xx status or the call fails.
C20_TTSNeverFails ==
  (resp.client # "none" /\ resp.r.kind = "tts"
     /\ resp.r.error \notin {"SyntaxError", "TypeError"}) =>
       /\ resp.r.status = 200
       /\ resp.r.body \in {"audio", "fallback"}

\* ---- C21
\* C21: with the summarizer credential missing, a feed request whose
\* summarizer calls were rejected returns a failure response, not a 200.
C21_MissingKeyFails ==
  (FeedReturned /\ resp.r.failed # {}) => resp.r.status # 200

\* ---- C22
\* C22: no step of an archive, delete or later request, from its receipt to
\* its return, failure or interruption, changes which summary:<id> keys exist
\* or what they hold.
C22_SummariesKept ==
  [][\A c \in Clients :
       ((req[c].kind \in {"archive", "delete", "later"}
           \/ req'[c].kind \in {"archive", "delete", "later"})
        /\ req'[c] # req[c]) => summary' = summary
    ]_vars

\* an action on an article whose summary is cached has returned success
C22_Witness ==
  /\ resp.client # "none" /\ resp.r.kind \in {"archive", "delete", "later"}
  /\ resp.r.success /\ resp.r.marked
  /\ summary[resp.r.id] # Null

\* ---- C23
\* C23: the loop of a feed request stands at one article at a time and moves
\* forward only.  A summarizer call is issued only from the cache miss of the
\* article in hand; when it is answered, with a text or a failure, the request
\* stores the text or goes on to the next article, and never comes back to an
\* article: one call at most for each candidate, and the candidates are
\* distinct articles.
C23_SerialNoRetry ==
  [][LET r == req["c1"]
         r2 == req'["c1"]
     IN (r.kind = "feed" /\ r2 # r) =>
          /\ Cardinality(IdsOf(r.newArticles)) = Len(r.newArticles)
          /\ r2.pc = "summarize" =>
               /\ r.pc = "cacheget" /\ r2.idx = r.idx
               /\ ~CacheHit(summary[CurrentArticle(r).id])
          /\ r.pc = "summarize" =>
               \/ r2.pc = "cacheput" /\ r2.idx = r.idx
               \/ r2.pc = "cacheget" /\ r2.idx = r.idx + 1
               \/ resp'.client = "c1" /\ r.idx = Len(Capped(r.newArticles))
          /\ (r.pc \in {"cacheput", "laterdel"} /\ r2.pc \in {"cacheget", "summarize"}) =>
               r2.idx = r.idx + 1
          /\ (r.pc = "cacheget" /\ r2.pc = "cacheget") => r2.idx = r.idx + 1
    ]_vars

\* a feed request has returned after one summarizer call failed and another
\* succeeded
C23_Witness ==
  /\ FeedReturned /\ resp.r.status = 200
  /\ resp.r.failed # {} /\ resp.r.articles # <<>>
  /\ \E k \in 1..Len(resp.r.articles) : summary[resp.r.articles[k].id] = resp.r.articles[k].summary

\* ---- C24
\* C24: a feed request that misses summary:<id> calls the summarizer whatever
\* the other request is doing, also while that one has a call for the same
\* article in flight; and each put of a summary overwrites the key, so the key
\* holds the text of the put that happened last.
C24_NoDedupLastPutWins ==
  [][\A c \in Clients :
       LET r == req[c] IN
         /\ (r.pc = "cacheget" /\ req'[c] # r /\ ~CacheHit(summary[CurrentArticle(r).id])) =>
               req'[c].pc = "summarize"
         /\ (r.pc = "cacheput" /\ req'[c] # r) =>
               summary' = [summary EXCEPT ![CurrentArticle(r).id] = r.text]
    ]_vars

\* both requests called the summarizer for the same article and got different
\* texts; the first has pushed its text, the second has put its own over it
C24_Witness ==
  \E c \in Clients : \E d \in Clients \ {c} : \E i \in Ids :
    /\ req[c].pc = "laterdel" /\ CurrentArticle(req[c]).id = i
    /\ req[c].summaries[Len(req[c].summaries)].summary = "s1"
    /\ req[d].pc = "laterdel" /\ CurrentArticle(req[d]).id = i
    /\ req[d].summaries[Len(req[d].summaries)].summary = "s2"
    /\ summary[i] = "s2"

\* ---- C25
\* C25: the delete of later:<id> by a feed request that found the marker in
\* its scan is unconditional: the step removes the key whatever was written
\* since the scan, also when a defer of the same id by another client has put
\* the key again and returned; no step of the feed request puts it back.
C25_FeedDeletesRewritten ==
  [][\A c \in Clients :
       LET r == req[c]
           moved == resp'.client = c \/ req'[c].pc # r.pc \/ req'[c].idx # r.idx
       IN /\ (r.kind = "feed" /\ r.pc = "laterdel" /\ moved) =>
               /\ CurrentArticle(r).id \in r.laterIds
               /\ CurrentArticle(r).id \notin later'
          /\ (r.kind = "feed" /\ moved) => later' \subseteq later
    ]_vars

\* the defer of another client has just returned success with later:<id> in
\* place, while a feed request that scanned later:<id> stands before its delete
C25_Witness ==
  \E i \in Ids :
    /\ resp.client = "c2" /\ resp.r.kind = "later" /\ resp.r.id = i
    /\ resp.r.success /\ ~resp.r.raced
    /\ req["c1"].kind = "feed" /\ req["c1"].pc = "laterdel"
    /\ CurrentArticle(req["c1"]).id = i /\ i \in req["c1"].laterIds
    /\ i \in later /\ i \notin heard

\* ---- C26
\* C26: when an action of the page fails (the worker answers an error, or the
\* call itself fails) the page shows the failure notice and the list and the
\* position are as they were when the action was settled.
C26_FailedActionKept ==
  [][(page.pc \in {"archive", "delete", "later"}
        /\ page'.pc = "idle" /\ page'.result \in {"error", "rejected"}) =>
          /\ page'.toast = "Failed"
          /\ page'.articles = page.articles
          /\ page'.currentIndex = page.currentIndex
    ]_vars

\* ---- C27
\* C27: when a sync fails (the worker answers an error, or the call cannot be
\* completed) the page shows what it showed before the sync: the same
\* articles in the same view, not the empty state in place of the player.
C27_FailedSyncKeepsList ==
  [][(page.pc = "sync" /\ page'.pc = "idle" /\ page'.result \in {"error", "rejected"}) =>
          /\ page'.articles = page.articles
          /\ page'.view = page.shown
    ]_vars

\* ---- C30
\* C30: invoking archiveArticle, deleteArticle, laterArticle or
\* readFullArticle stops the summary that is playing: once the action is
\* invoked, and until the page does something else, no summary sounds.
C30_ActionsStopPlayback ==
  [][(\/ page.pc = "idle" /\ page'.pc \in {"archive", "delete", "later"}
      \/ page'.audio = "full"
      \/ page'.toast = "No content, opening Reader..." /\ page'.toast # page.toast)
        => page'.audio # "summary"
    ]_vars

\* ---- C28
\* C28: extractSource returns the site name when there is one; otherwise, for
\* a source_url that parses, the host name less a leading "www." and nothing
\* else; otherwise "Unknown source".
C28_ExtractSource ==
  (call.fn = "extractSource" /\ call.returned) =>
     LET a == call.article
         www == <<"w", "w", "w", ".">>
         h == a.source_url.hostname
     IN call.result =
          IF a.site_name # <<>> THEN a.site_name
          ELSE IF a.source_url.given /\ a.source_url.parses
            THEN IF Len(h) >= 4 /\ SubSeq(h, 1, 4) = www THEN SubSeq(h, 5, Len(h)) ELSE h
          ELSE UnknownSource

\* ---- C29
\* the step is the receipt of this request
C29_Received(method, path, id) == StartRequest("c1", method, path, Null, id)

\* C29: a request that matches no route is answered 404 at once: no key is
\* written or deleted, no document changes and no handler is started, so no
\* upstream call is made; a request to /api/archive, /api/delete or /api/later
\* whose method is not POST is such a request, in both workers.
C29_UnroutedNoEffect ==
  [][\A method \in Methods : \A path \in RoutePaths : \A id \in Ids :
       /\ (Route(method, path) = "notfound" /\ C29_Received(method, path, id)) =>
             /\ resp'.client = "c1" /\ resp'.r.kind = "notfound" /\ resp'.r.status = 404
             /\ req' = req
             /\ heard' = heard /\ later' = later /\ summary' = summary /\ docs' = docs
       /\ (method \notin {"POST", "OPTIONS"}
            /\ path \in {<<"api", "archive">>, <<"api", "delete">>, <<"api", "later">>}) =>
             /\ Route(method, path) = "notfound"
             /\ RouteV1(method, path) = "notfound"
    ]_vars

\* a request matched no route and was answered 404, after an earlier POST had
\* marked the article
C29_Witness ==
  /\ resp.client = "c1" /\ resp.r.kind = "notfound" /\ resp.r.status = 404
  /\ req["c1"] = IdleReq
  /\ heard # {}

\* ---- C31
\* C31: a feed request removes later:<id> only by the delete that follows the
\* push of that article, and only when its scan found the marker; when it
\* returns, a marker its scan found is gone if the article is in the output
\* and still there if it is not (its summarization failed, it lies beyond the
\* cap, or it is not a candidate of the scope).
C31_LaterConsumedIffServed ==
  [][LET r == req["c1"] IN
       r.kind = "feed" =>
          /\ later' \subseteq later
          /\ \A i \in later \ later' :
               /\ r.pc = "laterdel" /\ i = CurrentArticle(r).id /\ i \in r.laterIds
               /\ r.summaries[Len(r.summaries)].id = i
          /\ (resp'.client = "c1" /\ resp'.r.status = 200) =>
               \A i \in (IF r.pc = "later" THEN later ELSE r.laterIds) :
                 (i \in IdsOf(resp'.r.articles)) <=> (i \notin later')
    ]_vars

\* a feed request has returned: it served one article, and of the later
\* markers it found one is kept because the summarization failed and one
\* because the article is outside the scope
C31_Witness ==
  /\ FeedReturned /\ resp.r.status = 200 /\ resp.r.articles # <<>>
  /\ \E i \in IdsOf(resp.r.articles) : i \notin later
  /\ \E j \in later : j \in resp.r.failed
  /\ \E k \in later : ~KeepDoc(k, resp.r.location)

\* ---- C32
\* C32: in a 200 feed response total_available is the number of fetched
\* articles the marker filter kept, whatever the cap dropped and whichever
\* summarizations failed; the articles of the response are those of the capped
\* list that did not fail, so they are no more than the total and the cap.
C32_TotalAvailable ==
  [][LET r == req["c1"] IN
       (r.kind = "feed" /\ resp'.client = "c1" /\ resp'.r.status = 200) =>
          LET kept == IF r.pc = "later" THEN FilterByMarkers(r.all, r.heardIds, later)
                      ELSE r.newArticles
          IN /\ resp'.r.total = Len(kept)
             /\ Len(resp'.r.articles) + Cardinality(resp'.r.failed) = Len(Capped(kept))
             /\ Len(resp'.r.articles) <= resp'.r.total
             /\ Len(resp'.r.articles) <= MAX_ARTICLES
    ]_vars

\* a response whose total exceeds the cap and whose articles fall short of
\* the cap because a summarization failed
C32_Witness ==
  /\ FeedReturned /\ resp.r.status = 200
  /\ resp.r.total > MAX_ARTICLES
  /\ resp.r.failed # {}
  /\ Len(resp.r.articles) < MAX_ARTICLES

\* ---- C33
\* C33: no step of a feed request changes the heard keys or adds a later key;
\* a later key goes only by the delete after the push of its article, and a
\* summary key changes only by the put of the text the summarizer has just
\* returned for the article in hand.
C33_FeedFrame ==
  [][LET r == req["c1"] IN
       r.kind = "feed" =>
          /\ heard' = heard
          /\ later' \subseteq later
          /\ later' # later =>
               r.pc = "laterdel" /\ later' = later \ {CurrentArticle(r).id}
          /\ summary' # summary =>
               /\ r.pc = "cacheput"
               /\ summary' = [summary EXCEPT ![CurrentArticle(r).id] = r.text]
          /\ docs' = docs
    ]_vars

\* a feed request has returned an article that was heard and marked later: its
\* summary is stored, its later key is gone and its heard key is still there
C33_Witness ==
  /\ FeedReturned /\ resp.r.status = 200
  /\ \E i \in IdsOf(resp.r.articles) :
       summary[i] # Null /\ i \in heard /\ i \notin later

\* ---- C34
\* C34: while a later request runs it never waits for the upstream store and
\* the documents stay as they are, and it returns success whatever the state of
\* the document named, also when the document is archived or gone.
C34_LaterNoUpstream ==
  [][LET r == req["c1"] IN
       r.kind = "later" =>
          /\ r.pc \in {"put", "del"}
          /\ req'["c1"].pc # "upstream"
          /\ docs' = docs
          /\ resp'.client = "c1" =>
               /\ resp'.r.status = 200 /\ resp'.r.success
               /\ resp'.r.upstream = IdleReq.upstream
               /\ resp'.r.id \in later' /\ resp'.r.id \notin heard'
    ]_vars

\* a later request has returned success for a document that is gone upstream
C34_Witness ==
  /\ resp.client = "c1" /\ resp.r.kind = "later" /\ resp.r.success
  /\ ~docs[resp.r.id].exists
  /\ resp.r.id \in later

\* ---- C35
\* C35: an article on which no archive and no delete is ever performed is kept
\* by the marker filter of every feed request whose list holds it, whatever
\* feed requests served it before and whatever deferrals of it were consumed.
C35_ServedStaysVisible ==
  LET r == req["c1"] IN
    (r.kind = "feed" /\ r.pc = "later" /\ Untouched \in IdsOf(r.all)) =>
       /\ Untouched \notin r.heardIds
       /\ Untouched \in IdsOf(FilterByMarkers(r.all, r.heardIds, later))

\* a feed request is about to filter a list that holds the article, which an
\* earlier feed request served (its summary is stored) and whose later marker
\* is gone, while the other article is marked heard
C35_Witness ==
  LET r == req["c1"] IN
    /\ r.kind = "feed" /\ r.pc = "later" /\ Untouched \in IdsOf(r.all)
    /\ summary[Untouched] # Null
    /\ Untouched \notin later
    /\ heard # {}

\* ---- C36
\* a later request for i has returned and no archive or delete of i has
\* written its marker since
C36_Deferred(i) ==
  /\ i \notin handled
  /\ \A c \in Clients : ~(req[c].kind = "later" /\ req[c].id = i)

\* C36: once a later request for an article has returned, with no archive or
\* delete after it, the article is not marked heard and stays so; a feed
\* request that scans the heard keys from then on does not find it, and its
\* filter keeps the article whether the later key is still there or a feed
\* request running at the same time has deleted it.
C36_DeferralNotLost ==
  [][LET r == req["c1"] IN
       \A i \in Ids :
         /\ C36_Deferred(i) => i \notin heard
         /\ (C36_Deferred(i) /\ C36_Deferred(i)') => i \notin heard'
         /\ (r.kind = "feed" /\ r.pc = "heard" /\ C36_Deferred(i)) =>
               i \notin req'["c1"].heardIds
         /\ (r.kind = "feed" /\ r.pc = "later" /\ i \notin r.heardIds
               /\ i \in IdsOf(r.all)) =>
               \A markers \in SUBSET Ids :
                  i \in IdsOf(FilterByMarkers(r.all, r.heardIds, markers))
    ]_vars

\* a feed request that scanned the heard keys after the deferral had returned
\* is about to filter, and the later key of the article is already gone
C36_Witness ==
  LET r == req["c1"] IN
    \E i \in Ids :
      /\ C36_Deferred(i)
      /\ r.kind = "feed" /\ r.pc = "later" /\ i \in IdsOf(r.all)
      /\ i \notin r.heardIds
      /\ i \notin later

\* ---- C37
\* C37: whenever the list of the page is not empty, currentIndex is the index
\* of one of its articles.
C37_IndexInRange ==
  page.articles # <<>> =>
     page.currentIndex \in 0..(Len(page.articles) - 1)

\* an action response has taken out the last article of the list, on which
\* the index stood, while the summary of another article was awaited by a timer
\* and a second request is still on its way
C37_Witness ==
  /\ page.toast = "Archived"
  /\ page.articles # <<>>
  /\ Len(page.articles) < NumIds
  /\ page.currentIndex = Len(page.articles) - 1
  /\ page.pending # {}
  /\ page.timers > 0

\* ---- C38
\* C38: when the response of an archive, delete or later request takes an
\* article out of the list, the article taken out is the one whose id the
\* request had sent.
C38_RemovesSent ==
  [][\A rq \in page.pending \ page'.pending :
       (rq.kind # "sync" /\ Len(page'.articles) < Len(page.articles)) =>
          {page'.articles[k] : k \in 1..Len(page'.articles)} =
             {page.articles[k] : k \in 1..Len(page.articles)} \ {rq.id}
    ]_vars

\* ---- C39
\* C39: while playback runs without input, the index moves only by the timer,
\* by exactly one and after the summary of the article before has ended, and
\* every summary that starts is that of the next article; from a summary that
\* plays, the summary of every later article of the list is played in the end,
\* and playback stops in the end on the last article with isPlaying false.
C39_AutoAdvance ==
  /\ [][page.isPlaying =>
          /\ page'.currentIndex # page.currentIndex =>
               /\ page'.currentIndex = page.currentIndex + 1
               /\ page.audio = "none" /\ page'.audio = "summary"
          /\ (page'.audio = "summary" /\ page.audio # "summary") =>
               page'.currentIndex = page.currentIndex + 1
          /\ page'.articles = page.articles
       ]_vars
  /\ \A j \in 0..(QueueLen - 1) :
       (page.isPlaying /\ page.audio = "summary" /\ page.currentIndex <= j
          /\ j < Len(page.articles))
         ~> (page.isPlaying /\ page.audio = "summary" /\ page.currentIndex = j)
  /\ page.isPlaying
       ~> (~page.isPlaying /\ page.audio = "none"
             /\ page.currentIndex = Len(page.articles) - 1)

\* playback has gone through a list of QueueLen articles and has stopped on
\* the last one
C39_Witness ==
  /\ Len(page.articles) = QueueLen
  /\ ~page.isPlaying /\ page.audio = "none" /\ page.timers = 0
  /\ page.currentIndex = QueueLen - 1
  /\ page.toast = "Finished all articles"

\* ---- C40
\* C40: every upstream document that is an article, is not archived and was
\* not served yet is in the end among the articles of a feed response (the
\* documents of the store that can be articles are 1, 2, maxPages and ManyIds).
C40_EventualService ==
  \A i \in {1, 2, maxPages, ManyIds} :
    (docs[i].category = "article" /\ docs[i].location # "archive" /\ summary[i] = Null)
      ~> (FeedReturned /\ resp.r.status = 200 /\ i \in IdsOf(resp.r.articles))

====
